---- MODULE Spec2Model ----
(***************************************************************************)
(* K20s: the ResourceOptimizerProfile reconciler.                          *)
(*                                                                         *)
(* One evaluation cycle (Reconcile) reads the profile, averages the        *)
(* Prometheus samples, classifies the value against the CPU thresholds,    *)
(* passes the cooldown gate, patches the matched Deployments and           *)
(* StatefulSets and writes the profile's status.                           *)
(*                                                                         *)
(* Time is counted in whole minutes.  float64 values are kept as exact     *)
(* fractions [num, den]; int64(x) is truncation toward zero.  A pointer    *)
(* field is a sequence: <<>> is nil, <<v>> points to v.                    *)
(***************************************************************************)
EXTENDS Integers, Sequences, FiniteSets, TLC

VARIABLES
    now,            \* the wall clock, in minutes
    profile,        \* resourceOptimizerProfile.Spec
    status,         \* resourceOptimizerProfile.Status as persisted
    deployments,    \* the Deployments the selector matches
    statefulSets,   \* the StatefulSets the selector matches
    res,            \* what the latest Reconcile call did and returned
    lastPatchAt,    \* <<t>>: the latest cycle that patched a workload ended at t
    failures,       \* how many cycles a failing collaborator call has ended
    goarch,         \* the architecture the controller was built for
    inflight        \* per controller process, the cycle it has in flight

vars == <<now, profile, status, deployments, statefulSets, res, lastPatchAt, failures,
          goarch, inflight>>

(***************************************************************************)
(* Program constants.                                                      *)
(***************************************************************************)
ScaleUpAction == "ScaleUp"
ScaleDownAction == "ScaleDown"
ResizeUpAction == "ResizeUp"
ResizeDownAction == "ResizeDown"
DoNothing == "DoNothing"

ActionTypes == {ScaleUpAction, ScaleDownAction, ResizeUpAction, ResizeDownAction, DoNothing}

\* what an earlier life of the profile may have left in status.lastAction
PriorTypes == {DoNothing, ScaleUpAction}

DefaultCooldown == 5
RequeueInterval == 5

(***************************************************************************)
(* Bounds of the model.                                                    *)
(***************************************************************************)
MaxTime == 5
MaxDrift == 1
MaxFailures == 1
MaxReplicas == 3
MaxMilli == 1200
MaxSamples == 3

Policies == {"Scale", "Resize", "Recommend"}
Thresholds == {[Min |-> 30, Max |-> 70]}
CooldownPeriods == {<<>>, <<2>>}
Clamps == {[MinCPU |-> <<>>, MaxCPU |-> <<>>]}

SampleValues == {10, 20, 30, 70, 75, 90}
CycleThresholds == {[Min |-> 30, Max |-> 70], [Min |-> 20, Max |-> 60]}
CycleClamps == {[MinCPU |-> <<>>, MaxCPU |-> <<>>],
                [MinCPU |-> <<>>, MaxCPU |-> <<1000>>],
                [MinCPU |-> <<100>>, MaxCPU |-> <<>>],
                [MinCPU |-> <<100>>, MaxCPU |-> <<1000>>],
                [MinCPU |-> <<1200>>, MaxCPU |-> <<1000>>]}

Nil == <<>>
IsNil(p) == Len(p) = 0
Deref(p) == p[1]

(***************************************************************************)
(* The profile's spec and the workloads of the cluster.                    *)
(***************************************************************************)
ProfileSpecs ==
    {[OptimizationPolicy |-> pol, CPUThresholds |-> th, CooldownPeriod |-> cd,
      MinCPU |-> cl.MinCPU, MaxCPU |-> cl.MaxCPU] :
        pol \in Policies, th \in Thresholds, cd \in CooldownPeriods, cl \in Clamps}

\* A workload: Spec.Replicas, a pointer, and, per container in declaration
\* order, the CPU request in milli-units (Nil: the container declares none).
Workload(replicas, containers) == [Replicas |-> replicas, Containers |-> containers]

Clusters ==
    {[deployments |-> <<Workload(<<1>>, <<<<500>>>>)>>,
      statefulSets |-> <<Workload(<<0>>, <<Nil>>)>>],
     [deployments |-> <<>>, statefulSets |-> <<>>]}

CycleClusters ==
    {[deployments |-> <<Workload(<<1>>, <<<<500>>>>)>>, statefulSets |-> <<>>],
     [deployments |-> <<Workload(<<1>>, <<Nil, <<500>>, <<200>>>>), Workload(<<2>>, <<Nil>>)>>,
      statefulSets |-> <<Workload(<<0>>, <<<<120>>>>)>>],
     [deployments |-> <<>>, statefulSets |-> <<Workload(<<1>>, <<<<2>>>>)>>],
     [deployments |-> <<>>, statefulSets |-> <<>>]}

(***************************************************************************)
(* float64 arithmetic, as exact fractions.                                 *)
(***************************************************************************)
RECURSIVE GCD(_, _)
GCD(a, b) == IF b = 0 THEN a ELSE GCD(b, a % b)

Abs(n) == IF n < 0 THEN -n ELSE n

Frac(n, d) == [num |-> n, den |-> d]

\* x * y, with the common factors taken out before multiplying
FMul(x, y) ==
    LET g1 == GCD(Abs(x.num), y.den)
        g2 == GCD(Abs(y.num), x.den)
        d1 == IF g1 = 0 THEN 1 ELSE g1
        d2 == IF g2 = 0 THEN 1 ELSE g2
    IN  Frac((x.num \div d1) * (y.num \div d2), (x.den \div d2) * (y.den \div d1))

\* x / y; the sign is kept in the numerator, and y = 0 gives denominator 0
FDiv(x, y) == FMul(x, IF y.num < 0 THEN Frac(-y.den, -y.num) ELSE Frac(y.den, y.num))

FLess(x, y) == x.num * y.den < y.num * x.den

\* The builds.  They differ in int64(x) for an x that is not finite, which
\* the language leaves to the implementation: amd64 yields the smallest
\* int64 for every such x; arm64 saturates and yields 0 for NaN.
GoArchs == {"amd64", "arm64"}

\* stand-ins for the extreme int64 values: the extremes of the integers the
\* model counts with; only their order against the clamps is used
MaxInt64 == 2147483647
MinInt64 == -MaxInt64

\* int64(x): truncation toward zero.  A fraction with denominator 0 is not
\* finite: +Inf, -Inf or, with numerator 0, NaN.
Int64(x) ==
    IF x.den = 0
    THEN (IF goarch = "amd64" THEN MinInt64
          ELSE IF x.num > 0 THEN MaxInt64
          ELSE IF x.num < 0 THEN MinInt64
          ELSE 0)
    ELSE IF x.num >= 0 THEN x.num \div x.den ELSE -((-x.num) \div x.den)

RECURSIVE SumOf(_, _)
SumOf(vector, i) == IF i > Len(vector) THEN 0 ELSE vector[i] + SumOf(vector, i + 1)

(***************************************************************************)
(* Reconcile, step 3: the representative value and the action.             *)
(***************************************************************************)
\* variant: the first sample stands for all
AverageValueFirst(vector) ==
    IF Len(vector) > 0 THEN Frac(vector[1], 1) ELSE Frac(0, 1)

\* var value float64; the mean of the samples, 0 for an empty vector
AverageValue(vector) ==
    IF Len(vector) > 0 THEN Frac(SumOf(vector, 1), Len(vector)) ELSE Frac(0, 1)

\* variants: the bounds counted as out of range; the two directions swapped
ClassifyActionInclusive(spec, value) ==
    IF ~FLess(Frac(spec.CPUThresholds.Min, 1), value)
    THEN (IF spec.OptimizationPolicy = "Resize" THEN ResizeDownAction ELSE ScaleDownAction)
    ELSE IF ~FLess(value, Frac(spec.CPUThresholds.Max, 1))
    THEN (IF spec.OptimizationPolicy = "Resize" THEN ResizeUpAction ELSE ScaleUpAction)
    ELSE DoNothing

ClassifyActionSwapped(spec, value) ==
    IF FLess(value, Frac(spec.CPUThresholds.Min, 1))
    THEN (IF spec.OptimizationPolicy = "Resize" THEN ResizeUpAction ELSE ScaleUpAction)
    ELSE IF FLess(Frac(spec.CPUThresholds.Max, 1), value)
    THEN (IF spec.OptimizationPolicy = "Resize" THEN ResizeDownAction ELSE ScaleDownAction)
    ELSE DoNothing

ClassifyAction(spec, value) ==
    IF FLess(value, Frac(spec.CPUThresholds.Min, 1))
    THEN (IF spec.OptimizationPolicy = "Resize" THEN ResizeDownAction ELSE ScaleDownAction)
    ELSE IF FLess(Frac(spec.CPUThresholds.Max, 1), value)
    THEN (IF spec.OptimizationPolicy = "Resize" THEN ResizeUpAction ELSE ScaleUpAction)
    ELSE DoNothing

(***************************************************************************)
(* Reconcile, step 4: the cooldown gate.                                   *)
(***************************************************************************)
\* variant: the default whatever the profile says
CooldownOfDefault(spec) == DefaultCooldown

CooldownOf(spec) ==
    IF ~IsNil(spec.CooldownPeriod) THEN Deref(spec.CooldownPeriod) ELSE DefaultCooldown

\* variant: the time since the clock's origin
SinceOrigin(t, at) == at

\* time.Since(t) read when the clock shows `at`
Since(t, at) == at - t

\* variants of the gate: one that compares the kinds of the two actions, one
\* that lets a DoNothing record start the clock, one that still blocks when
\* the elapsed time equals the cooldown
InCooldownSameKind(action, lastAction, cooldownPeriod, at) ==
    /\ action # DoNothing
    /\ ~IsNil(lastAction)
    /\ Deref(lastAction).Type = action
    /\ Since(Deref(lastAction).Timestamp, at) < cooldownPeriod

InCooldownAnyRecord(action, lastAction, cooldownPeriod, at) ==
    /\ action # DoNothing
    /\ ~IsNil(lastAction)
    /\ Since(Deref(lastAction).Timestamp, at) < cooldownPeriod

InCooldownInclusive(action, lastAction, cooldownPeriod, at) ==
    /\ action # DoNothing
    /\ ~IsNil(lastAction)
    /\ Deref(lastAction).Type # DoNothing
    /\ Since(Deref(lastAction).Timestamp, at) <= cooldownPeriod

\* variant: a gate that blocks a DoNothing candidate like any other
InCooldownAnyAction(action, lastAction, cooldownPeriod, at) ==
    /\ ~IsNil(lastAction)
    /\ Deref(lastAction).Type # DoNothing
    /\ Since(Deref(lastAction).Timestamp, at) < cooldownPeriod

\* variant: a gate with a memory of its own, open after a failed cycle
InCooldownUnlessRetry(action, lastAction, cooldownPeriod, at) ==
    /\ failures = 0
    /\ action # DoNothing
    /\ ~IsNil(lastAction)
    /\ Deref(lastAction).Type # DoNothing
    /\ Since(Deref(lastAction).Timestamp, at) < cooldownPeriod

\* the two nested conditions that end the cycle early
InCooldown(action, lastAction, cooldownPeriod, at) ==
    /\ action # DoNothing
    /\ ~IsNil(lastAction)
    /\ Deref(lastAction).Type # DoNothing
    /\ Since(Deref(lastAction).Timestamp, at) < cooldownPeriod

\* variant: the whole cooldown again
RequeueAfterFullCooldown(lastAction, cooldownPeriod, at) == cooldownPeriod

RequeueAfterCooldown(lastAction, cooldownPeriod, at) ==
    cooldownPeriod - Since(Deref(lastAction).Timestamp, at)

(***************************************************************************)
(* executeScaleAction and executeResizeAction.                             *)
(***************************************************************************)
\* the largest int32
MaxInt32 == 2147483647

\* variant: no floor
NewReplicasNoFloor(action, replicas) ==
    IF action = ScaleUpAction THEN replicas + 1 ELSE replicas - 1

\* var newReplicas int32: the sum wraps around at the largest int32; the
\* API server admits no negative count, so the difference does not wrap
NewReplicas(action, replicas) ==
    LET newReplicas == IF action = ScaleUpAction
                       THEN (IF replicas = MaxInt32 THEN -MaxInt32 - 1 ELSE replicas + 1)
                       ELSE replicas - 1
    IN  IF newReplicas < 1 THEN 1 ELSE newReplicas

\* variant: the last container that declares a CPU request
LastCPUContainer(containers, i) ==
    LET declared == {k \in i..Len(containers) : ~IsNil(containers[k])}
    IN  IF declared = {} THEN 0 ELSE CHOOSE k \in declared : \A j \in declared : j <= k

\* index of the first container that declares a CPU request, 0 if none does
RECURSIVE FirstCPUContainer(_, _)
FirstCPUContainer(containers, i) ==
    IF i > Len(containers) THEN 0
    ELSE IF ~IsNil(containers[i]) THEN i
    ELSE FirstCPUContainer(containers, i + 1)

TargetUsagePercent(spec) == Frac(spec.CPUThresholds.Min + spec.CPUThresholds.Max, 2)

\* variant: no 25% buffer
NewCPUMilliNoBuffer(spec, observedValue, cpuMilli) ==
    Int64(FMul(FMul(FDiv(observedValue, TargetUsagePercent(spec)), Frac(cpuMilli, 1000)),
               Frac(1000, 1)))

\* the new request in milli-units, before the clamps; cpuMilli is the
\* container's current request
NewCPUMilli(spec, observedValue, cpuMilli) ==
    LET cores == Frac(cpuMilli, 1000)
        newCPUValue == FMul(FDiv(observedValue, TargetUsagePercent(spec)), cores)
        buffered == FMul(newCPUValue, Frac(125, 100))
    IN  Int64(FMul(buffered, Frac(1000, 1)))

\* variant: the upper clamp first, then the lower one
ClampCPUMaxFirst(spec, newCPURequest) ==
    LET upper == IF ~IsNil(spec.MaxCPU) /\ newCPURequest > Deref(spec.MaxCPU)
                 THEN Deref(spec.MaxCPU) ELSE newCPURequest
    IN  IF ~IsNil(spec.MinCPU) /\ upper < Deref(spec.MinCPU)
        THEN Deref(spec.MinCPU) ELSE upper

ClampCPU(spec, newCPURequest) ==
    LET lower == IF ~IsNil(spec.MinCPU) /\ newCPURequest < Deref(spec.MinCPU)
                 THEN Deref(spec.MinCPU) ELSE newCPURequest
    IN  IF ~IsNil(spec.MaxCPU) /\ lower > Deref(spec.MaxCPU)
        THEN Deref(spec.MaxCPU) ELSE lower

\* The collaborator call that fails in a cycle: none, the Get of the profile
\* (with NotFound, the profile was deleted, or with another error), the
\* Prometheus query, a List, the Patch of the index-th item of a list, or the
\* status update.
NoFailure == [call |-> "none", index |-> 0]
Failures ==
    {NoFailure}
    \cup {[call |-> c, index |-> 0] :
            c \in {"getNotFound", "get", "query", "listDeployments", "listStatefulSets",
                   "statusUpdate"}}
    \cup {[call |-> c, index |-> i] :
            c \in {"patchDeployment", "patchStatefulSet"}, i \in 1..1}

\* the calls whose failure ends the cycle before it reads the clock
EarlyReturns == {"getNotFound", "get", "query"}

FailAt(fail, call) == IF fail.call = call THEN fail.index ELSE 0

PatchRecord(kind, i, container, old, new) ==
    [kind |-> kind, index |-> i, container |-> container, old |-> old, new |-> new]

\* for _, item := range items { ... r.Patch ... }: the loop over one list,
\* from item i on; the Patch of item failAt returns an error.  The read of
\* *item.Spec.Replicas comes before the Patch: on a nil pointer the
\* goroutine panics there.
RECURSIVE ScaleLoop(_, _, _, _, _, _)
ScaleLoop(kind, items, i, action, failAt, writes) ==
    IF i > Len(items)
    THEN [items |-> items, err |-> FALSE, panic |-> FALSE, writes |-> writes]
    ELSE IF IsNil(items[i].Replicas)
    THEN [items |-> items, err |-> FALSE, panic |-> TRUE, writes |-> writes]
    ELSE IF i = failAt
    THEN [items |-> items, err |-> TRUE, panic |-> FALSE, writes |-> writes]
    ELSE LET newReplicas == NewReplicas(action, Deref(items[i].Replicas))
         IN  ScaleLoop(kind, [items EXCEPT ![i].Replicas = <<newReplicas>>], i + 1,
                       action, failAt,
                       Append(writes,
                              PatchRecord(kind, i, 0, Deref(items[i].Replicas),
                                          newReplicas)))

\* variant: a workload without a CPU request ends the loop with an error
RECURSIVE ResizeLoopStrict(_, _, _, _, _, _, _)
ResizeLoopStrict(kind, items, i, spec, observedValue, failAt, writes) ==
    IF i > Len(items)
    THEN [items |-> items, err |-> FALSE, panic |-> FALSE, writes |-> writes]
    ELSE LET c == FirstCPUContainer(items[i].Containers, 1)
         IN  IF c = 0 \/ i = failAt
             THEN [items |-> items, err |-> TRUE, panic |-> FALSE, writes |-> writes]
             ELSE LET old == Deref(items[i].Containers[c])
                      newCPURequest == ClampCPU(spec, NewCPUMilli(spec, observedValue, old))
                  IN  ResizeLoopStrict(kind,
                                       [items EXCEPT ![i].Containers[c] = <<newCPURequest>>],
                                       i + 1, spec, observedValue, failAt,
                                       Append(writes,
                                              PatchRecord(kind, i, c, old, newCPURequest)))

RECURSIVE ResizeLoop(_, _, _, _, _, _, _)
ResizeLoop(kind, items, i, spec, observedValue, failAt, writes) ==
    IF i > Len(items)
    THEN [items |-> items, err |-> FALSE, panic |-> FALSE, writes |-> writes]
    ELSE LET c == FirstCPUContainer(items[i].Containers, 1)
         IN  IF c = 0
             THEN ResizeLoop(kind, items, i + 1, spec, observedValue, failAt, writes)
             ELSE LET old == Deref(items[i].Containers[c])
                      newCPURequest == ClampCPU(spec, NewCPUMilli(spec, observedValue, old))
                  IN  \* the API server rejects a negative request: Patch fails
                      IF i = failAt \/ newCPURequest < 0
                      THEN [items |-> items, err |-> TRUE, panic |-> FALSE,
                            writes |-> writes]
                      ELSE
                      ResizeLoop(kind,
                                 [items EXCEPT ![i].Containers[c] = <<newCPURequest>>],
                                 i + 1, spec, observedValue, failAt,
                                 Append(writes, PatchRecord(kind, i, c, old, newCPURequest)))

\* The two lists one after the other: d and s are the outcomes of the loop
\* over the Deployments and of the loop over the StatefulSets; an error of a
\* List or of the first loop returns before the second loop.
ExecuteLists(deps, sts, fail, d, s) ==
    IF fail.call = "listDeployments"
    THEN [deployments |-> deps, statefulSets |-> sts, err |-> TRUE, panic |-> FALSE,
          writes |-> <<>>]
    ELSE IF d.panic
    THEN [deployments |-> d.items, statefulSets |-> sts, err |-> FALSE, panic |-> TRUE,
          writes |-> d.writes]
    ELSE IF d.err \/ fail.call = "listStatefulSets"
    THEN [deployments |-> d.items, statefulSets |-> sts, err |-> TRUE, panic |-> FALSE,
          writes |-> d.writes]
    ELSE [deployments |-> d.items, statefulSets |-> s.items, err |-> s.err,
          panic |-> s.panic, writes |-> d.writes \o s.writes]

executeScaleAction(action, deps, sts, fail) ==
    IF action = DoNothing
    THEN [deployments |-> deps, statefulSets |-> sts, err |-> FALSE, panic |-> FALSE,
          writes |-> <<>>]
    ELSE ExecuteLists(deps, sts, fail,
                      ScaleLoop("Deployment", deps, 1, action,
                                FailAt(fail, "patchDeployment"), <<>>),
                      ScaleLoop("StatefulSet", sts, 1, action,
                                FailAt(fail, "patchStatefulSet"), <<>>))

executeResizeAction(spec, action, observedValue, deps, sts, fail) ==
    IF action = DoNothing
    THEN [deployments |-> deps, statefulSets |-> sts, err |-> FALSE, panic |-> FALSE,
          writes |-> <<>>]
    ELSE ExecuteLists(deps, sts, fail,
                      ResizeLoop("Deployment", deps, 1, spec, observedValue,
                                 FailAt(fail, "patchDeployment"), <<>>),
                      ResizeLoop("StatefulSet", sts, 1, spec, observedValue,
                                 FailAt(fail, "patchStatefulSet"), <<>>))

(***************************************************************************)
(* Reconcile.                                                              *)
(***************************************************************************)
\* fmt.Sprintf("%.2f", value): the value in hundredths, rounded to nearest
Format2(value) == (2 * 100 * value.num + value.den) \div (2 * value.den)

\* the per-pod samples of a query: one below Min, one inside the zone, one
\* above Max, and two whose mean is inside the zone
Vectors == {<<10>>, <<50>>, <<90>>, <<10, 90>>}

\* what executePromQL returns when it returns no error
QueryResults ==
    {[type |-> "scalar", vector |-> <<>>]} \cup {[type |-> "vector", vector |-> v] : v \in Vectors}

ActionDetail(action, timestamp, value) ==
    [Type |-> action, Timestamp |-> timestamp]

\* variant: ObservedMetrics left as found
NewStatusKeepsMetrics(spec, st, action, value, at) ==
    [LastAction |-> IF spec.OptimizationPolicy \in {"Scale", "Resize"} /\ action # DoNothing
                    THEN <<ActionDetail(action, at, value)>>
                    ELSE st.LastAction,
     Recommendations |-> IF spec.OptimizationPolicy # "Recommend" THEN st.Recommendations
                         ELSE IF action # DoNothing
                         THEN <<[usage |-> Format2(value), consider |-> action]>>
                         ELSE Nil,
     ObservedMetrics |-> st.ObservedMetrics]

\* variants: LastAction recorded under every policy; LastAction recorded
\* for DoNothing too
NewStatusAnyPolicy(spec, st, action, value, at) ==
    [LastAction |-> IF action # DoNothing THEN <<ActionDetail(action, at, value)>>
                    ELSE st.LastAction,
     Recommendations |-> IF spec.OptimizationPolicy # "Recommend" THEN st.Recommendations
                         ELSE IF action # DoNothing
                         THEN <<[usage |-> Format2(value), consider |-> action]>>
                         ELSE Nil,
     ObservedMetrics |-> <<Format2(value)>>]

NewStatusRecordsNoOp(spec, st, action, value, at) ==
    [LastAction |-> IF spec.OptimizationPolicy \in {"Scale", "Resize"}
                    THEN <<ActionDetail(action, at, value)>>
                    ELSE st.LastAction,
     Recommendations |-> IF spec.OptimizationPolicy # "Recommend" THEN st.Recommendations
                         ELSE IF action # DoNothing
                         THEN <<[usage |-> Format2(value), consider |-> action]>>
                         ELSE Nil,
     ObservedMetrics |-> <<Format2(value)>>]

\* variant: under Recommend a DoNothing leaves the recommendations stored
NewStatusKeepsRecommendations(spec, st, action, value, at) ==
    [LastAction |-> IF spec.OptimizationPolicy \in {"Scale", "Resize"} /\ action # DoNothing
                    THEN <<ActionDetail(action, at, value)>>
                    ELSE st.LastAction,
     Recommendations |-> IF spec.OptimizationPolicy = "Recommend" /\ action # DoNothing
                         THEN <<[usage |-> Format2(value), consider |-> action]>>
                         ELSE st.Recommendations,
     ObservedMetrics |-> <<Format2(value)>>]

\* the status object the cycle holds when it reaches step 5
NewStatus(spec, st, action, value, at) ==
    LET policy == spec.OptimizationPolicy
        lastAction == IF policy \in {"Scale", "Resize"} /\ action # DoNothing
                      THEN <<ActionDetail(action, at, value)>>
                      ELSE st.LastAction
        recommendations ==
            IF policy = "Recommend"
            THEN (IF action # DoNothing
                  THEN <<[usage |-> Format2(value), consider |-> action]>>
                  ELSE Nil)
            ELSE st.Recommendations
    IN  [LastAction |-> lastAction, Recommendations |-> recommendations,
         ObservedMetrics |-> <<Format2(value)>>]

\* variant: NotFound returned like any other error
KeepNotFound(call) == TRUE

\* client.IgnoreNotFound(err) != nil, for the error of the failing Get
IgnoreNotFound(call) == call # "getNotFound"

NoExec(deps, sts) ==
    [deployments |-> deps, statefulSets |-> sts, err |-> FALSE, panic |-> FALSE,
     writes |-> <<>>]

\* What one call of Reconcile does: the status and the workloads it leaves
\* and `ret`, the record of the call.  t1 is the clock at the gate's check,
\* t2 the clock at the later readings (the remaining wait, metav1.Now()).
ReconcileCycle(spec, st, deps, sts, t1, t2, result, fail) ==
    LET policy == spec.OptimizationPolicy
        value == AverageValue(result.vector)
        action == ClassifyAction(spec, value)
        cooldownPeriod == CooldownOf(spec)
        lastAction == st.LastAction
        gated == policy \in {"Scale", "Resize"}
        Ret(kind, act, val, requeueAfter, err, dispatched, writes) ==
            [kind |-> kind, action |-> act, value |-> val, requeueAfter |-> requeueAfter,
             err |-> err, dispatched |-> dispatched, writes |-> writes,
             prior |-> lastAction, priorRecommendations |-> st.Recommendations,
             t1 |-> t1, t2 |-> t2,
             failed |-> IF kind = "panic" THEN "panic"
                        ELSE IF ~err THEN "none"
                        ELSE IF fail.call = "none" THEN "rejected" ELSE fail.call,
             prevPatchAt |-> Nil,
             vector |-> IF act = "" THEN <<>> ELSE result.vector]
        Leave(st2, exec, ret) ==
            [status |-> st2, deployments |-> exec.deployments,
             statefulSets |-> exec.statefulSets, ret |-> ret]
    IN  IF fail.call = "getNotFound"
        THEN \* the profile is gone: ctrl.Result{} and what IgnoreNotFound leaves
             Leave(st, NoExec(deps, sts),
                   Ret("notfound", "", Frac(0, 1), 0, IgnoreNotFound(fail.call), FALSE, <<>>))
        ELSE IF fail.call \in {"get", "query"}
        THEN Leave(st, NoExec(deps, sts), Ret("error", "", Frac(0, 1), 0, TRUE, FALSE, <<>>))
        ELSE IF result.type # "vector"
        THEN Leave(st, NoExec(deps, sts),
                   Ret("notvector", "", Frac(0, 1), RequeueInterval, FALSE, FALSE, <<>>))
        ELSE IF gated /\ InCooldown(action, lastAction, cooldownPeriod, t1)
        THEN Leave(st, NoExec(deps, sts),
                   Ret("blocked", action, value,
                       RequeueAfterCooldown(lastAction, cooldownPeriod, t2),
                       FALSE, FALSE, <<>>))
        ELSE LET exec == IF policy = "Scale"
                         THEN executeScaleAction(action, deps, sts, fail)
                         ELSE IF policy = "Resize"
                         THEN executeResizeAction(spec, action, value, deps, sts, fail)
                         ELSE NoExec(deps, sts)
             IN  \* a panic unwinds Reconcile: nothing is returned by it, and
                 \* the status is not written
                 IF exec.panic
                 THEN Leave(st, exec, Ret("panic", action, value, 0, TRUE, gated, exec.writes))
                 ELSE IF exec.err
                 THEN Leave(st, exec, Ret("error", action, value, 0, TRUE, gated, exec.writes))
                 ELSE IF fail.call = "statusUpdate"
                 THEN Leave(st, exec, Ret("error", action, value, 0, TRUE, gated, exec.writes))
                 ELSE Leave(NewStatus(spec, st, action, value, t2), exec,
                            Ret("reported", action, value, RequeueInterval, FALSE, gated,
                                exec.writes))

NoResult ==
    [kind |-> "none", action |-> "", value |-> Frac(0, 1), requeueAfter |-> 0,
     err |-> FALSE, dispatched |-> FALSE, writes |-> <<>>, prior |-> Nil,
     priorRecommendations |-> Nil, t1 |-> 0, t2 |-> 0, failed |-> "none", prevPatchAt |-> Nil, vector |-> <<>>]

\* The controller processes that can run a cycle for one profile at the same
\* time: the manager starts without leader election unless told otherwise,
\* so a second replica of it, or the old and the new pod of a rollout,
\* reconcile the same profiles.
Processes == {1, 2}

\* a process with no cycle in flight
Idle ==
    [pc |-> "idle", status |-> [LastAction |-> Nil, Recommendations |-> Nil,
                                ObservedMetrics |-> Nil],
     stale |-> FALSE, fresh |-> FALSE, action |-> "", value |-> Frac(0, 1), t1 |-> 0,
     items |-> <<>>, newStatus |-> [LastAction |-> Nil, Recommendations |-> Nil,
                                    ObservedMetrics |-> Nil],
     writes |-> <<>>, patchedAt |-> Nil, wrote |-> FALSE, conflict |-> FALSE,
     requeueAfter |-> 0, returnedAt |-> 0]

NoCycles == [p \in Processes |-> Idle]

WithinBounds(items) ==
    \A i \in 1..Len(items) :
        /\ IF IsNil(items[i].Replicas) THEN TRUE
           ELSE Deref(items[i].Replicas) <= MaxReplicas
        /\ \A c \in 1..Len(items[i].Containers) :
              IF IsNil(items[i].Containers[c]) THEN TRUE
              ELSE Deref(items[i].Containers[c]) <= MaxMilli

(***************************************************************************)
(* The state machine.                                                      *)
(***************************************************************************)
FreshStatus(lastAction) ==
    [LastAction |-> lastAction, Recommendations |-> Nil, ObservedMetrics |-> Nil]

Init ==
    /\ now = 0
    /\ profile \in ProfileSpecs
    /\ \E lastAction \in {Nil} \cup {<<ActionDetail(a, 0, Frac(50, 1))>> : a \in PriorTypes} :
          status = FreshStatus(lastAction)
    /\ \E cluster \in Clusters :
          /\ deployments = cluster.deployments
          /\ statefulSets = cluster.statefulSets
    /\ res = NoResult
    /\ lastPatchAt = Nil
    /\ failures = 0
    /\ goarch = "amd64"
    /\ inflight = NoCycles

\* the clock advances
Tick ==
    /\ res = NoResult
    /\ now < MaxTime
    /\ now' = now + 1
    /\ UNCHANGED <<profile, status, deployments, statefulSets, res, lastPatchAt, failures,
                   goarch, inflight>>

\* the work queue takes the result the call returned
Requeue ==
    /\ res # NoResult
    /\ res' = NoResult
    /\ UNCHANGED <<now, profile, status, deployments, statefulSets, lastPatchAt, failures,
                   goarch, inflight>>

\* variant: a cycle that ends in an error after the classification still
\* persists the observed value
ReconcilePartialStatus(result, fail, drift) ==
    /\ res = NoResult
    /\ \E out \in {ReconcileCycle(profile, status, deployments, statefulSets,
                                  now, now + drift, result, fail)} :
           /\ status' = IF out.ret.err /\ out.ret.action # ""
                         THEN [out.status EXCEPT
                                 !.ObservedMetrics = <<Format2(out.ret.value)>>]
                         ELSE out.status
           /\ deployments' = out.deployments
           /\ statefulSets' = out.statefulSets
           /\ res' = [out.ret EXCEPT !.prevPatchAt = lastPatchAt]
           /\ lastPatchAt' = IF Len(out.ret.writes) > 0 THEN <<now + drift>> ELSE lastPatchAt
           /\ failures' = IF out.ret.err THEN failures + 1 ELSE failures
    /\ now' = now + drift
    /\ UNCHANGED <<profile, goarch, inflight>>

\* variant: LastAction recorded before the dispatcher is invoked, and so
\* also when the dispatcher fails
ReconcileRecordsFirst(result, fail, drift) ==
    /\ res = NoResult
    /\ \E out \in {ReconcileCycle(profile, status, deployments, statefulSets,
                                  now, now + drift, result, fail)} :
           /\ status' = IF out.ret.err /\ out.ret.dispatched /\ out.ret.action # DoNothing
                         THEN [out.status EXCEPT
                                 !.LastAction = <<ActionDetail(out.ret.action, now + drift,
                                                               out.ret.value)>>]
                         ELSE out.status
           /\ deployments' = out.deployments
           /\ statefulSets' = out.statefulSets
           /\ res' = [out.ret EXCEPT !.prevPatchAt = lastPatchAt]
           /\ lastPatchAt' = IF Len(out.ret.writes) > 0 THEN <<now + drift>> ELSE lastPatchAt
           /\ failures' = IF out.ret.err THEN failures + 1 ELSE failures
    /\ now' = now + drift
    /\ UNCHANGED <<profile, goarch, inflight>>

\* variant: LastAction recorded only when a Patch changed a workload
ReconcileRecordsChanges(result, fail, drift) ==
    /\ res = NoResult
    /\ \E out \in {ReconcileCycle(profile, status, deployments, statefulSets,
                                  now, now + drift, result, fail)} :
           /\ status' = IF \A k \in 1..Len(out.ret.writes) :
                                out.ret.writes[k].new = out.ret.writes[k].old
                         THEN [out.status EXCEPT !.LastAction = status.LastAction]
                         ELSE out.status
           /\ deployments' = out.deployments
           /\ statefulSets' = out.statefulSets
           /\ res' = [out.ret EXCEPT !.prevPatchAt = lastPatchAt]
           /\ lastPatchAt' = IF Len(out.ret.writes) > 0 THEN <<now + drift>> ELSE lastPatchAt
           /\ failures' = IF out.ret.err THEN failures + 1 ELSE failures
    /\ now' = now + drift
    /\ UNCHANGED <<profile, goarch, inflight>>

\* one evaluation cycle, taking `drift` minutes between its clock readings
Reconcile(result, fail, drift) ==
    /\ res = NoResult
    /\ \E out \in {ReconcileCycle(profile, status, deployments, statefulSets,
                                  now, now + drift, result, fail)} :
           /\ status' = out.status
           /\ deployments' = out.deployments
           /\ statefulSets' = out.statefulSets
           /\ res' = [out.ret EXCEPT !.prevPatchAt = lastPatchAt]
           /\ lastPatchAt' = IF Len(out.ret.writes) > 0 THEN <<now + drift>> ELSE lastPatchAt
           /\ failures' = IF out.ret.err THEN failures + 1 ELSE failures
    /\ now' = now + drift
    /\ UNCHANGED <<profile, goarch, inflight>>

\* the bounds on what a cycle may leave
Bounded ==
    /\ now' <= MaxTime
    /\ failures' <= MaxFailures
    /\ WithinBounds(deployments')
    /\ WithinBounds(statefulSets')

Next ==
    \/ Tick
    \/ Requeue
    \/ \E result \in QueryResults, fail \in Failures, drift \in 0..MaxDrift :
          /\ (fail.call \in EarlyReturns \/ result.type # "vector") => drift = 0
          /\ Reconcile(result, fail, drift)
          /\ Bounded

Spec == Init /\ [][Next]_vars

(***************************************************************************)
(* One cycle on a profile that was never acted on: the classifier and the  *)
(* resize computation over all their inputs.                               *)
(***************************************************************************)
CycleProfileSpecs ==
    {[OptimizationPolicy |-> pol, CPUThresholds |-> th, CooldownPeriod |-> Nil,
      MinCPU |-> cl.MinCPU, MaxCPU |-> cl.MaxCPU] :
        pol \in Policies, th \in CycleThresholds, cl \in CycleClamps}

\* the vectors of up to MaxSamples samples, in ascending and in descending
\* order of value: the first sample is the lowest or the highest one
Monotone(v) ==
    \/ \A i \in 1..(Len(v) - 1) : v[i] <= v[i + 1]
    \/ \A i \in 1..(Len(v) - 1) : v[i] >= v[i + 1]

SampleVectors ==
    {v \in UNION {[1..n -> SampleValues] : n \in 0..MaxSamples} : Monotone(v)}

InitCycle ==
    /\ now = 0
    /\ profile \in CycleProfileSpecs
    /\ status = FreshStatus(Nil)
    /\ \E cluster \in CycleClusters :
          /\ deployments = cluster.deployments
          /\ statefulSets = cluster.statefulSets
    /\ res = NoResult
    /\ lastPatchAt = Nil
    /\ failures = 0
    /\ goarch = "amd64"
    /\ inflight = NoCycles

NextCycle ==
    \E vector \in SampleVectors :
        Reconcile([type |-> "vector", vector |-> vector], NoFailure, 0)

SpecCycle == InitCycle /\ [][NextCycle]_vars

(***************************************************************************)
(* Properties of the cooldown gate and of the replica floor, read off the  *)
(* record `res` of the cycle that just ran.                                *)
(***************************************************************************)
\* the cycle classified a non-DoNothing action under policy Scale or Resize
GatedCandidate ==
    /\ res.kind \in {"blocked", "reported", "error"}
    /\ profile.OptimizationPolicy \in {"Scale", "Resize"}
    /\ res.action \notin {"", DoNothing}

\* ... and the profile carried a LastAction record of non-DoNothing kind
PriorAction == GatedCandidate /\ ~IsNil(res.prior) /\ Deref(res.prior).Type # DoNothing

\* time since that record at the gate's check and at the later clock reading
ElapsedAtGate == res.t1 - Deref(res.prior).Timestamp
ElapsedAtRequeue == res.t2 - Deref(res.prior).Timestamp

\* the number of workloads with a container that declares a CPU request
CPUWorkloads(items) ==
    Cardinality({i \in 1..Len(items) : FirstCPUContainer(items[i].Containers, 1) # 0})

\* the cycle went through the dispatcher; with no failing call it patched
\* every workload, recorded the action and returned the regular interval
Actuated ==
    /\ res.kind # "blocked"
    /\ res.dispatched
    /\ res.failed = "none" =>
          /\ res.kind = "reported"
          /\ res.requeueAfter = RequeueInterval
          /\ Len(res.writes) = IF profile.OptimizationPolicy = "Scale"
                                THEN Len(deployments) + Len(statefulSets)
                                ELSE CPUWorkloads(deployments) + CPUWorkloads(statefulSets)
          /\ status.LastAction = <<ActionDetail(res.action, res.t2, res.value)>>

\* C1: two consecutive cycles that patch workloads are separated by at least
\* the profile's cooldown, whatever the cycles in between (admitted, blocked
\* or ending in an error).
C1_PatchesSeparatedByCooldown ==
    (Len(res.writes) > 0 /\ ~IsNil(res.prevPatchAt)) =>
        res.t1 - Deref(res.prevPatchAt) >= CooldownOf(profile)

\* C2: under Scale or Resize, a non-DoNothing candidate with a non-DoNothing
\* LastAction younger than the cooldown is blocked: nothing is patched, the
\* status is left alone and requeueAfter is the cooldown minus the elapsed
\* time (the elapsed time read when the wait is computed).
C2_BlockedInsideCooldown ==
    (PriorAction /\ ElapsedAtGate < CooldownOf(profile)) =>
        /\ res.kind = "blocked"
        /\ ~res.dispatched
        /\ res.writes = <<>>
        /\ status.LastAction = res.prior
        /\ res.requeueAfter = CooldownOf(profile) - ElapsedAtRequeue

\* timestamp = now - 3m, cooldown 5m: blocked with requeueAfter = 2m
C2_Witness ==
    /\ PriorAction
    /\ res.t1 = res.t2
    /\ ElapsedAtGate = 3
    /\ CooldownOf(profile) = 5
    /\ res.kind = "blocked"
    /\ res.requeueAfter = 2
    /\ Len(deployments) > 0

\* C3: the gate does not compare the kind of the last action with the
\* candidate: a candidate of any other non-DoNothing kind than the recorded
\* one is blocked while the record is younger than the cooldown.
C3_GateIgnoresKinds ==
    (PriorAction /\ Deref(res.prior).Type # res.action
       /\ ElapsedAtGate < CooldownOf(profile)) =>
        res.kind = "blocked" /\ res.writes = <<>>

\* a ScaleDown candidate blocked by a ScaleUp record
C3_Witness ==
    /\ PriorAction
    /\ Deref(res.prior).Type = ScaleUpAction
    /\ res.action = ScaleDownAction
    /\ ElapsedAtGate < CooldownOf(profile)
    /\ res.kind = "blocked"
    /\ Len(deployments) > 0

\* C4: with no LastAction record, or one of kind DoNothing, a non-DoNothing
\* candidate under Scale or Resize is admitted and actuated in the same
\* cycle, whatever the cooldown.
C4_FirstActionAdmitted ==
    (GatedCandidate /\ (IF IsNil(res.prior) THEN TRUE
                        ELSE Deref(res.prior).Type = DoNothing)) => Actuated

\* a DoNothing record younger than the cooldown, and the workloads patched
C4_Witness ==
    /\ GatedCandidate
    /\ ~IsNil(res.prior)
    /\ Deref(res.prior).Type = DoNothing
    /\ ElapsedAtGate < CooldownOf(profile)
    /\ res.kind = "reported"
    /\ Len(res.writes) = 2

\* C5: with a non-DoNothing LastAction whose age is at least the cooldown
\* (equal included), a non-DoNothing candidate is admitted and actuated.
C5_AdmittedAfterCooldown ==
    (PriorAction /\ ElapsedAtGate >= CooldownOf(profile)) => Actuated

\* the record is exactly as old as the cooldown, and the workloads patched
C5_Witness ==
    /\ PriorAction
    /\ ElapsedAtGate = CooldownOf(profile)
    /\ res.kind = "reported"
    /\ Len(res.writes) = 2

\* the replica counts a Scale cycle wrote
ScaleWrites ==
    IF res.action \in {ScaleUpAction, ScaleDownAction} /\ profile.OptimizationPolicy = "Scale"
    THEN {res.writes[k] : k \in 1..Len(res.writes)}
    ELSE {}

WorkloadsOf(kind) == IF kind = "Deployment" THEN deployments ELSE statefulSets

\* C8: every replica count a ScaleUp or ScaleDown sets on a Deployment or a
\* StatefulSet is at least 1; ScaleDown on 1 replica leaves 1.
C8_ReplicaFloor ==
    \A w \in ScaleWrites :
        /\ w.new >= 1
        /\ WorkloadsOf(w.kind)[w.index].Replicas = <<w.new>>
        /\ (res.action = ScaleDownAction /\ w.old <= 1) => w.new = 1
        /\ (res.action = ScaleDownAction /\ w.old > 1) => w.new = w.old - 1
        /\ res.action = ScaleUpAction => w.new = w.old + 1

\* ScaleDown met a Deployment with 1 replica
C8_Witness ==
    /\ res.action = ScaleDownAction
    /\ \E w \in ScaleWrites : w.kind = "Deployment" /\ w.old = 1 /\ w.new = 1

(***************************************************************************)
(* Properties of the classifier and of the resize computation, over the    *)
(* single cycles of SpecCycle.                                             *)
(***************************************************************************)
Evaluated == res.kind = "reported"

MinThreshold == profile.CPUThresholds.Min
MaxThreshold == profile.CPUThresholds.Max

\* the observed value against an integer bound, by cross-multiplication
ValueBelow(bound) == res.value.num < bound * res.value.den
ValueAbove(bound) == res.value.num > bound * res.value.den

\* C6: a value with Min <= value <= Max, bounds included, is classified
\* DoNothing under every policy (the comparisons are strict), and nothing is
\* patched, recorded as an action or recommended.
C6_InRangeIsDoNothing ==
    (Evaluated /\ ~ValueBelow(MinThreshold) /\ ~ValueAbove(MaxThreshold)) =>
        /\ res.action = DoNothing
        /\ res.writes = <<>>
        /\ IsNil(status.LastAction)
        /\ IsNil(status.Recommendations)

\* the mean of several samples sits exactly on a bound
C6_Witness ==
    /\ Evaluated
    /\ res.value.den > 1
    /\ \/ res.value.num = MinThreshold * res.value.den
       \/ res.value.num = MaxThreshold * res.value.den
    /\ res.action = DoNothing
    /\ Len(deployments) > 0

LowAction == IF profile.OptimizationPolicy = "Resize" THEN ResizeDownAction ELSE ScaleDownAction
HighAction == IF profile.OptimizationPolicy = "Resize" THEN ResizeUpAction ELSE ScaleUpAction

\* C7: value < Min gives ScaleDown under Scale, ResizeDown under Resize and
\* the advisory candidate ScaleDown under Recommend; value > Max gives
\* ScaleUp, ResizeUp and ScaleUp.  Under Recommend the candidate is only
\* written as a recommendation.
C7_OutOfRangeActions ==
    Evaluated =>
        /\ ValueBelow(MinThreshold) => res.action = LowAction
        /\ ValueAbove(MaxThreshold) => res.action = HighAction
        /\ (profile.OptimizationPolicy = "Recommend" /\ res.action # DoNothing) =>
              /\ res.action \in {ScaleDownAction, ScaleUpAction}
              /\ res.writes = <<>>
              /\ IsNil(status.LastAction)
              /\ Deref(status.Recommendations).consider = res.action

\* a value above Max under Recommend: ScaleUp, as advice only
C7_Witness ==
    /\ Evaluated
    /\ profile.OptimizationPolicy = "Recommend"
    /\ ValueAbove(MaxThreshold)
    /\ res.action = ScaleUpAction
    /\ Len(deployments) > 0
    /\ res.writes = <<>>

\* the CPU requests a Resize cycle wrote
ResizeWrites ==
    IF res.action \in {ResizeUpAction, ResizeDownAction}
    THEN {res.writes[k] : k \in 1..Len(res.writes)}
    ELSE {}

\* (observed / ((Min + Max) / 2)) * (old / 1000) * 1.25 * 1000 as one fraction
\* RawNum(old) / RawDen, and its whole part
RawNum(old) == res.value.num * old * 5
RawDen == res.value.den * 2 * (MinThreshold + MaxThreshold)
RawMilli(old) == RawNum(old) \div RawDen

Unclamped == IsNil(profile.MinCPU) /\ IsNil(profile.MaxCPU)

\* the test's inputs: 90 %, thresholds {30, 70}, a request of 500m
TestInputs(w) ==
    /\ res.value.num = 90 * res.value.den
    /\ MinThreshold = 30 /\ MaxThreshold = 70
    /\ w.old = 500

Inverted ==
    IF IsNil(profile.MinCPU) \/ IsNil(profile.MaxCPU) THEN FALSE
    ELSE Deref(profile.MaxCPU) < Deref(profile.MinCPU)

C11_ResizeAtLeastOneMilli ==
    \A w \in ResizeWrites : w.new >= 1

\* the query returned a vector with no sample in it
NoData == Evaluated /\ Len(res.vector) = 0

\* C12: a cycle whose query returns zero samples is not treated as a 0 %
\* reading: no ScaleDown or ResizeDown is classified or actuated, no
\* LastAction is written, and the cycle is reported with the 5-minute wait.
C12_NoDataIsNotLowUsage ==
    NoData =>
        /\ res.action \notin {ScaleDownAction, ResizeDownAction}
        /\ res.writes = <<>>
        /\ IsNil(status.LastAction)
        /\ res.requeueAfter = RequeueInterval

(***************************************************************************)
(* What a cycle writes to LastAction.                                      *)
(***************************************************************************)
RecommendCycle == profile.OptimizationPolicy = "Recommend" /\ res.kind # "none"

\* C13: under Recommend a cycle patches no workload, is never blocked by
\* the cooldown gate whatever LastAction holds, and leaves LastAction as it
\* found it.
C13_RecommendOnlyAdvises ==
    RecommendCycle =>
        /\ res.kind # "blocked"
        /\ ~res.dispatched
        /\ res.writes = <<>>
        /\ status.LastAction = res.prior

\* a ScaleUp record younger than the cooldown, a candidate action, workloads
\* to patch: the cycle is reported and only advises
C13_Witness ==
    /\ RecommendCycle
    /\ res.kind = "reported"
    /\ res.action = ScaleDownAction
    /\ ~IsNil(res.prior)
    /\ Deref(res.prior).Type = ScaleUpAction
    /\ ElapsedAtGate < CooldownOf(profile)
    /\ Deref(status.Recommendations).consider = ScaleDownAction
    /\ Len(deployments) > 0

RealKinds == {ScaleUpAction, ScaleDownAction, ResizeUpAction, ResizeDownAction}

\* C14: a LastAction the engine stores carries the kind of the real action
\* of that cycle, never DoNothing: a cycle that changes LastAction runs under
\* Scale or Resize and stores its non-DoNothing action, and a cycle that
\* classifies DoNothing leaves LastAction as it found it.
C14_RecordedKindIsReal ==
    /\ (res.kind # "none" /\ status.LastAction # res.prior) =>
          /\ profile.OptimizationPolicy \in {"Scale", "Resize"}
          /\ Deref(status.LastAction).Type = res.action
          /\ res.action \in RealKinds
          /\ res.action \in (IF profile.OptimizationPolicy = "Scale"
                             THEN {ScaleUpAction, ScaleDownAction}
                             ELSE {ResizeUpAction, ResizeDownAction})
    /\ (res.kind # "none" /\ res.action = DoNothing) => status.LastAction = res.prior

\* a Scale or Resize cycle classified DoNothing and was reported: the record
\* of the earlier ScaleUp is still there
C14_Witness ==
    /\ res.kind = "reported"
    /\ profile.OptimizationPolicy \in {"Scale", "Resize"}
    /\ res.action = DoNothing
    /\ ~IsNil(status.LastAction)
    /\ Deref(status.LastAction).Type = ScaleUpAction
    /\ status.ObservedMetrics = <<Format2(res.value)>>

(***************************************************************************)
(* The end-to-end scenario: policy Scale, thresholds {20, 60}, an observed *)
(* average of 75 in every cycle, no LastAction at the start, no failing    *)
(* call.                                                                   *)
(***************************************************************************)
ScenarioProfileSpecs ==
    {[OptimizationPolicy |-> "Scale", CPUThresholds |-> [Min |-> 20, Max |-> 60],
      CooldownPeriod |-> cd, MinCPU |-> Nil, MaxCPU |-> Nil] : cd \in CooldownPeriods}

ScenarioVectors == {<<75>>, <<70, 80>>}

InitScenario ==
    /\ now = 0
    /\ profile \in ScenarioProfileSpecs
    /\ status = FreshStatus(Nil)
    /\ \E cluster \in Clusters :
          /\ deployments = cluster.deployments
          /\ statefulSets = cluster.statefulSets
    /\ res = NoResult
    /\ lastPatchAt = Nil
    /\ failures = 0
    /\ goarch = "amd64"
    /\ inflight = NoCycles

NextScenario ==
    \/ Tick
    \/ Requeue
    \/ \E vector \in ScenarioVectors, drift \in 0..MaxDrift :
          Reconcile([type |-> "vector", vector |-> vector], NoFailure, drift) /\ Bounded

SpecScenario == InitScenario /\ [][NextScenario]_vars

\* C15: in the scenario every cycle decides ScaleUp.  A cycle that finds no
\* LastAction raises every replica count by one and writes LastAction with
\* kind ScaleUp; a cycle run within the cooldown of that record is blocked,
\* returns the remaining cooldown as requeueAfter and patches nothing.
C15_ScaleUpThenBlocked ==
    res.kind # "none" =>
        /\ res.value.num = 75 * res.value.den
        /\ res.action = ScaleUpAction
        /\ IsNil(res.prior) =>
              /\ res.kind = "reported"
              /\ Len(res.writes) = Len(deployments) + Len(statefulSets)
              /\ \A w \in ScaleWrites :
                    w.new = w.old + 1 /\ WorkloadsOf(w.kind)[w.index].Replicas = <<w.new>>
              /\ status.LastAction = <<ActionDetail(ScaleUpAction, res.t2, res.value)>>
        /\ (IF IsNil(res.prior) THEN FALSE ELSE ElapsedAtGate < CooldownOf(profile)) =>
              /\ Deref(res.prior).Type = ScaleUpAction
              /\ res.kind = "blocked"
              /\ res.requeueAfter = CooldownOf(profile) - ElapsedAtRequeue
              /\ res.writes = <<>>
              /\ lastPatchAt = res.prevPatchAt
              /\ status.LastAction = res.prior

\* the second cycle: run 1 minute after the first one raised the Deployment
\* from 1 to 2 replicas, blocked, with the rest of the 5 minutes to wait
C15_Witness ==
    /\ res.kind = "blocked"
    /\ res.action = ScaleUpAction
    /\ Deref(res.prior).Type = ScaleUpAction
    /\ res.prevPatchAt = <<Deref(res.prior).Timestamp>>
    /\ res.t1 = res.t2
    /\ ElapsedAtGate = 1
    /\ CooldownOf(profile) = 5
    /\ res.requeueAfter = 4
    /\ Len(deployments) = 1
    /\ deployments[1].Replicas = <<2>>

(***************************************************************************)
(* Failing calls, the status write and the delay a cycle returns.          *)
(***************************************************************************)
\* the number of workloads the action of the cycle applies to
Matched ==
    IF profile.OptimizationPolicy = "Scale"
    THEN Len(deployments) + Len(statefulSets)
    ELSE CPUWorkloads(deployments) + CPUWorkloads(statefulSets)

\* C16: a Patch that fails does not stop the iteration: every other matched
\* workload, later Deployments and all StatefulSets, is still patched.
C16_PatchFailureDoesNotStop ==
    res.failed \in {"patchDeployment", "patchStatefulSet"} =>
        Len(res.writes) = Matched - 1

\* C17: the status is written once, at the end of a cycle: a step that ends
\* in a collaborator error returns the error and leaves every status field
\* as it was; a step that is reported writes ObservedMetrics, LastAction and
\* Recommendations together, each as the cycle decided it.
C17_StatusAllOrNothing ==
    [][(res = NoResult /\ res' # NoResult) =>
          /\ res'.kind = "error" => (res'.err /\ status' = status)
          /\ res'.kind # "reported" => status' = status
          /\ res'.kind = "reported" =>
                /\ status'.ObservedMetrics = <<Format2(res'.value)>>
                /\ status'.LastAction =
                      IF profile.OptimizationPolicy \in {"Scale", "Resize"}
                         /\ res'.action # DoNothing
                      THEN <<[Type |-> res'.action, Timestamp |-> res'.t2]>>
                      ELSE status.LastAction
                /\ status'.Recommendations =
                      IF profile.OptimizationPolicy # "Recommend" THEN status.Recommendations
                      ELSE IF res'.action # DoNothing
                      THEN <<[usage |-> Format2(res'.value), consider |-> res'.action]>>
                      ELSE Nil]_vars

\* the Deployment was patched, the next call failed, and the status holds
\* nothing of the cycle
C17_Witness ==
    /\ res.kind = "error"
    /\ res.failed \in {"listStatefulSets", "patchStatefulSet"}
    /\ Len(res.writes) > 0
    /\ IsNil(status.ObservedMetrics)
    /\ IsNil(status.LastAction)

\* C18: a cycle blocked by the cooldown gate leaves LastAction as it found
\* it and refreshes ObservedMetrics with the value it observed.
C18_BlockedRefreshesMetrics ==
    res.kind = "blocked" =>
        /\ status.LastAction = res.prior
        /\ status.ObservedMetrics = <<Format2(res.value)>>

\* the cycle found its profile and no collaborator call failed
Completed == res.kind \notin {"none", "notfound"} /\ ~res.err

DegenerateThresholds == {[Min |-> 0, Max |-> 0], [Min |-> -10, Max |-> 0]}

DegenerateProfileSpecs ==
    {[OptimizationPolicy |-> "Resize", CPUThresholds |-> th, CooldownPeriod |-> Nil,
      MinCPU |-> cl.MinCPU, MaxCPU |-> cl.MaxCPU] :
        th \in DegenerateThresholds, cl \in CycleClamps}

InitDegenerate ==
    /\ now = 0
    /\ profile \in DegenerateProfileSpecs
    /\ status = FreshStatus(Nil)
    /\ \E cluster \in CycleClusters :
          /\ deployments = cluster.deployments
          /\ statefulSets = cluster.statefulSets
    /\ res = NoResult
    /\ lastPatchAt = Nil
    /\ failures = 0
    /\ goarch \in GoArchs
    /\ inflight = NoCycles

NextDegenerate ==
    \E vector \in SampleVectors :
        Reconcile([type |-> "vector", vector |-> vector], NoFailure, 0)

SpecDegenerate == InitDegenerate /\ [][NextDegenerate]_vars

\* the cycle ran the resize calculator on a target (Min + Max) / 2 that is
\* zero or negative, for at least one workload with a CPU request
DegenerateResize ==
    /\ res.kind # "none"
    /\ res.dispatched
    /\ res.action \in {ResizeUpAction, ResizeDownAction}
    /\ MinThreshold + MaxThreshold <= 0
    /\ Matched > 0

\* C20: when the resize target (min + max) / 2 is zero or negative, the
\* resize calculator signals an "invalid thresholds" domain error and writes
\* no CPU request: no quantity derived from a division by zero or from an
\* infinite or undefined value reaches a workload.
C20_DegenerateTargetWritesNothing ==
    DegenerateResize => res.writes = <<>>

(***************************************************************************)
(* The classifier on thresholds with Min >= Max.  The schema bounds each   *)
(* of Min and Max to 1..100 and does not relate the two.                   *)
(***************************************************************************)
InvertedThresholds == {[Min |-> 70, Max |-> 30], [Min |-> 50, Max |-> 50]}

InvertedProfileSpecs ==
    {[OptimizationPolicy |-> pol, CPUThresholds |-> th, CooldownPeriod |-> Nil,
      MinCPU |-> Nil, MaxCPU |-> Nil] :
        pol \in Policies, th \in InvertedThresholds}

InitInverted ==
    /\ now = 0
    /\ profile \in InvertedProfileSpecs
    /\ status = FreshStatus(Nil)
    /\ \E cluster \in CycleClusters :
          /\ deployments = cluster.deployments
          /\ statefulSets = cluster.statefulSets
    /\ res = NoResult
    /\ lastPatchAt = Nil
    /\ failures = 0
    /\ goarch = "amd64"
    /\ inflight = NoCycles

NextInverted ==
    \E vector \in SampleVectors :
        Reconcile([type |-> "vector", vector |-> vector], NoFailure, 0)

SpecInverted == InitInverted /\ [][NextInverted]_vars

\* the value lies in the zone the inverted thresholds leave: Max <= value <= Min
InInvertedZone ==
    /\ Evaluated
    /\ MaxThreshold <= MinThreshold
    /\ ~ValueBelow(MaxThreshold)
    /\ ~ValueAbove(MinThreshold)

\* C21: with thresholds Min >= Max the classifier does not crash and returns
\* DoNothing for every value with Max <= value <= Min; nothing is patched and
\* no action is recorded for such a value.
C21_InvertedZoneIsDoNothing ==
    InInvertedZone =>
        /\ res.action = DoNothing
        /\ res.writes = <<>>
        /\ IsNil(status.LastAction)

(***************************************************************************)
(* Scale on workloads at the edges of Spec.Replicas: the pointer unset,    *)
(* and the count at the largest int32.                                     *)
(***************************************************************************)
ReplicaClusters ==
    {[deployments |-> <<Workload(Nil, <<<<500>>>>)>>, statefulSets |-> <<>>],
     [deployments |-> <<Workload(<<2>>, <<<<500>>>>)>>,
      statefulSets |-> <<Workload(Nil, <<Nil>>)>>],
     [deployments |-> <<Workload(<<MaxInt32>>, <<<<500>>>>)>>, statefulSets |-> <<>>],
     [deployments |-> <<Workload(<<3>>, <<<<500>>>>)>>,
      statefulSets |-> <<Workload(<<1>>, <<Nil>>)>>]}

ScaleProfileSpecs ==
    {[OptimizationPolicy |-> "Scale", CPUThresholds |-> th, CooldownPeriod |-> Nil,
      MinCPU |-> Nil, MaxCPU |-> Nil] : th \in CycleThresholds}

InitReplicas ==
    /\ now = 0
    /\ profile \in ScaleProfileSpecs
    /\ status = FreshStatus(Nil)
    /\ \E cluster \in ReplicaClusters :
          /\ deployments = cluster.deployments
          /\ statefulSets = cluster.statefulSets
    /\ res = NoResult
    /\ lastPatchAt = Nil
    /\ failures = 0
    /\ goarch = "amd64"
    /\ inflight = NoCycles

NextReplicas ==
    \E vector \in SampleVectors :
        Reconcile([type |-> "vector", vector |-> vector], NoFailure, 0)

SpecReplicas == InitReplicas /\ [][NextReplicas]_vars

\* a matched Deployment or StatefulSet has no replica count
UnsetReplicas ==
    \/ \E i \in 1..Len(deployments) : IsNil(deployments[i].Replicas)
    \/ \E i \in 1..Len(statefulSets) : IsNil(statefulSets[i].Replicas)

\* C22: a Scale action on a matched Deployment or StatefulSet whose replica
\* count is unset does not crash the cycle: the cycle ends with a decision
\* or with a returned error, never in a panic.
C22_UnsetReplicasDoNotPanic ==
    (UnsetReplicas /\ res.kind # "none" /\ res.action \in {ScaleUpAction, ScaleDownAction}) =>
        /\ res.kind \in {"reported", "blocked", "error"}
        /\ res.failed # "panic"

(***************************************************************************)
(* The cooldown the gate uses.                                             *)
(***************************************************************************)
\* C23: the cooldown the gate uses is the profile's cooldownPeriod when it
\* is set and exactly 5 minutes when it is not, under Scale and under
\* Resize: a candidate that meets a non-DoNothing record is blocked exactly
\* when the record is younger than that duration, and the wait returned is
\* that duration minus the elapsed time.
C23_CooldownFromProfile ==
    PriorAction =>
        LET expected == IF IsNil(profile.CooldownPeriod) THEN 5
                        ELSE Deref(profile.CooldownPeriod)
        IN  /\ res.kind = "blocked" <=> ElapsedAtGate < expected
            /\ res.kind = "blocked" => res.requeueAfter = expected - ElapsedAtRequeue

\* a Resize profile with a 2-minute cooldownPeriod: a record 3 minutes old
\* no longer blocks, although the default of 5 minutes would
C23_Witness ==
    /\ PriorAction
    /\ profile.OptimizationPolicy = "Resize"
    /\ profile.CooldownPeriod = <<2>>
    /\ ElapsedAtGate = 3
    /\ res.kind = "reported"
    /\ Len(res.writes) > 0

(***************************************************************************)
(* The cycle of a profile that was deleted.                                *)
(***************************************************************************)
\* C24: when the profile no longer exists at evaluation time the cycle is
\* "nothing to do": it returns no error and requests no requeue, it queries
\* no metrics (no value is observed, no action classified), patches no
\* workload and writes no status.
C24_NotFoundIsNothingToDo ==
    [][(res = NoResult /\ res'.kind = "notfound") =>
          /\ ~res'.err
          /\ res'.requeueAfter = 0
          /\ res'.action = ""
          /\ res'.vector = <<>>
          /\ ~res'.dispatched
          /\ res'.writes = <<>>
          /\ deployments' = deployments
          /\ statefulSets' = statefulSets
          /\ status' = status
          /\ failures' = failures]_vars

\* the Get found nothing although the profile asked for Scale, carried a
\* record older than the cooldown and matched a Deployment
C24_Witness ==
    /\ res.kind = "notfound"
    /\ profile.OptimizationPolicy = "Scale"
    /\ ~IsNil(status.LastAction)
    /\ Deref(status.LastAction).Type = ScaleUpAction
    /\ res.t1 - Deref(status.LastAction).Timestamp >= CooldownOf(profile)
    /\ Len(deployments) > 0
    /\ res.requeueAfter = 0

(***************************************************************************)
(* The representative value of a sample vector.                            *)
(***************************************************************************)
RECURSIVE Total(_)
Total(v) == IF v = <<>> THEN 0 ELSE Head(v) + Total(Tail(v))

\* C25: for one or more samples the representative value is the arithmetic
\* mean of all sample values, value * count = sum; the samples 10, 20, 30
\* give 20.  It is the value the status reports, rounded to hundredths.
C25_ValueIsArithmeticMean ==
    (Evaluated /\ Len(res.vector) >= 1) =>
        /\ res.value.num * Len(res.vector) = Total(res.vector) * res.value.den
        /\ res.vector = <<10, 20, 30>> => res.value.num = 20 * res.value.den
        /\ status.ObservedMetrics =
              <<(200 * Total(res.vector) + Len(res.vector)) \div (2 * Len(res.vector))>>

\* the samples 90, 10, 10: the mean is neither the first sample, nor the
\* median, nor the maximum
C25_Witness ==
    /\ Evaluated
    /\ res.vector = <<90, 10, 10>>
    /\ res.value.num * 3 = 110 * res.value.den
    /\ status.ObservedMetrics = <<3667>>

(***************************************************************************)
(* Determinism of the classification and of the gate.                      *)
(***************************************************************************)
\* the cycle classified its value
Classified == res.kind \in {"blocked", "reported", "error", "panic"} /\ res.action # ""

\* C26: classification and gating are deterministic.  The decision of a
\* cycle (the action kind, blocked or admitted, the requeueAfter) is a
\* function of the profile, the samples, the prior LastAction and the clock
\* alone: two evaluations that agree on these agree on the decision,
\* whatever the workloads, the earlier failures and the earlier patches.
C26_DecisionFromInputsOnly ==
    Classified =>
        LET n == IF Len(res.vector) = 0 THEN 1 ELSE Len(res.vector)
            sum == Total(res.vector)
            candidate == IF sum < MinThreshold * n THEN LowAction
                         ELSE IF sum > MaxThreshold * n THEN HighAction
                         ELSE DoNothing
            cooldown == IF IsNil(profile.CooldownPeriod) THEN 5
                        ELSE Deref(profile.CooldownPeriod)
            blocked == /\ profile.OptimizationPolicy \in {"Scale", "Resize"}
                       /\ candidate # DoNothing
                       /\ ~IsNil(res.prior)
                       /\ Deref(res.prior).Type # DoNothing
                       /\ res.t1 - Deref(res.prior).Timestamp < cooldown
        IN  /\ res.action = candidate
            /\ res.kind = "blocked" <=> blocked
            /\ blocked => res.requeueAfter = cooldown - (res.t2 - Deref(res.prior).Timestamp)
            /\ res.kind = "reported" => res.requeueAfter = 5

\* a cycle after a failed one, with a Deployment already patched by an
\* earlier cycle: blocked like any cycle on these inputs
C26_Witness ==
    /\ res.kind = "blocked"
    /\ failures = 1
    /\ ~IsNil(lastPatchAt)
    /\ Len(deployments) > 0
    /\ res.t1 = res.t2

(***************************************************************************)
(* The wait a blocked cycle returns.                                       *)
(***************************************************************************)
\* C27: whenever a cycle is blocked by the cooldown gate, the requeueAfter
\* it returns is strictly greater than zero, also when the clock advances
\* between the gate's check of the elapsed time and the computation of the
\* remaining wait.
C27_BlockedWaitIsPositive ==
    res.kind = "blocked" => res.requeueAfter > 0

(***************************************************************************)
(* The order of the dispatch and of the record.                            *)
(***************************************************************************)
\* C28: an admitted non-DoNothing cycle under Scale or Resize invokes the
\* dispatcher first and only afterwards writes a new LastAction, whose kind
\* is the classified action and whose timestamp is the time of that cycle:
\* a record is new only where the dispatcher has run through all matched
\* workloads, and a cycle whose dispatch failed leaves the old record.  A
\* cycle whose classified action is DoNothing writes no LastAction but
\* still updates observedMetrics.
C28_DispatchThenRecord ==
    /\ (GatedCandidate /\ res.kind = "reported") =>
          /\ res.dispatched
          /\ Len(res.writes) = Matched
          /\ status.LastAction = <<[Type |-> res.action, Timestamp |-> res.t2]>>
          /\ res.t1 <= res.t2 /\ res.t2 <= now
    /\ (res.kind # "none" /\ status.LastAction # res.prior) =>
          /\ res.kind = "reported"
          /\ res.dispatched
          /\ Len(res.writes) = Matched
    /\ (GatedCandidate /\ res.kind = "error") => status.LastAction = res.prior
    /\ (res.kind = "reported" /\ res.action = DoNothing) =>
          /\ status.LastAction = res.prior
          /\ status.ObservedMetrics = <<Format2(res.value)>>

\* an admitted ScaleDown or ResizeDown that met a ScaleUp record older than
\* the cooldown: the workloads are patched and the record is replaced, with
\* the clock's later reading as its timestamp
C28_Witness ==
    /\ PriorAction
    /\ res.kind = "reported"
    /\ res.action \in {ScaleDownAction, ResizeDownAction}
    /\ Len(res.writes) > 0
    /\ res.t2 > res.t1
    /\ status.LastAction = <<[Type |-> res.action, Timestamp |-> res.t2]>>
    /\ status.LastAction # res.prior

(***************************************************************************)
(* The cycle that has nothing to do.                                       *)
(***************************************************************************)
\* the cycle classified DoNothing
NoOpCycle == res.kind # "none" /\ res.action = DoNothing

\* C29: a cycle whose classified action is DoNothing is never blocked by the
\* cooldown gate, even when a non-DoNothing LastAction is younger than the
\* cooldown: it lists and patches no workload (no List and no Patch can
\* fail in it), leaves LastAction unchanged and, unless the status write
\* fails, ends with the regular 5-minute requeue.
C29_NoOpNeverBlocked ==
    NoOpCycle =>
        /\ res.kind \in {"reported", "error"}
        /\ res.writes = <<>>
        /\ status.LastAction = res.prior
        /\ res.failed \in {"none", "statusUpdate"}
        /\ res.failed = "none" =>
              /\ res.kind = "reported"
              /\ res.requeueAfter = 5

\* a value inside the zone one minute after a ScaleUp, under Scale, with a
\* Deployment matched: reported, with the record as it was
C29_Witness ==
    /\ NoOpCycle
    /\ profile.OptimizationPolicy = "Scale"
    /\ ~IsNil(res.prior)
    /\ Deref(res.prior).Type = ScaleUpAction
    /\ res.t1 - Deref(res.prior).Timestamp = 1
    /\ res.kind = "reported"
    /\ res.requeueAfter = 5
    /\ Len(deployments) > 0
    /\ status.LastAction = res.prior

(***************************************************************************)
(* The size of a horizontal step.                                          *)
(***************************************************************************)
\* C30: each horizontal action changes a workload's replica count by
\* exactly one step: ScaleUp sets current + 1 and ScaleDown sets
\* max(current - 1, 1); no single cycle moves a workload by more than one
\* replica when current >= 1.
C30_SingleReplicaStep ==
    \A w \in ScaleWrites :
        w.old >= 1 =>
            /\ res.action = ScaleUpAction => w.new - 1 = w.old
            /\ res.action = ScaleDownAction =>
                  w.new = (IF w.old - 1 > 1 THEN w.old - 1 ELSE 1)
            /\ w.new - w.old \in {-1, 0, 1}

(***************************************************************************)
(* The containers a Resize touches.                                        *)
(***************************************************************************)
\* container c of `containers` is the first, in declaration order, that
\* declares a CPU request
IsFirstCPU(containers, c) ==
    /\ c \in 1..Len(containers)
    /\ ~IsNil(containers[c])
    /\ \A k \in 1..(c - 1) : IsNil(containers[k])

\* what a Resize did to one list: only first CPU containers differ, and no
\* workload was patched twice
OnlyFirstCPUTouched(kind, before, after, writes) ==
    /\ Len(after) = Len(before)
    /\ \A i \in 1..Len(before) :
          /\ after[i].Replicas = before[i].Replicas
          /\ Len(after[i].Containers) = Len(before[i].Containers)
          /\ \A c \in 1..Len(before[i].Containers) :
                after[i].Containers[c] # before[i].Containers[c] =>
                    IsFirstCPU(before[i].Containers, c)
          /\ Cardinality({k \in 1..Len(writes) :
                            writes[k].kind = kind /\ writes[k].index = i}) <= 1
    /\ \A k \in 1..Len(writes) :
          writes[k].kind = kind =>
              /\ writes[k].index \in 1..Len(before)
              /\ IsFirstCPU(before[writes[k].index].Containers, writes[k].container)

\* C31: a Resize action on a workload modifies only the first container, in
\* declaration order, that declares a CPU request; every other container of
\* the workload, later ones with a CPU request included, keeps its request,
\* and at most one patch is issued per workload.
C31_OnlyFirstCPUContainer ==
    [][res'.action \in {ResizeUpAction, ResizeDownAction} =>
          /\ OnlyFirstCPUTouched("Deployment", deployments, deployments', res'.writes)
          /\ OnlyFirstCPUTouched("StatefulSet", statefulSets, statefulSets', res'.writes)]_vars

\* a Resize patched the second container of a Deployment whose first
\* container declares no CPU request and whose third one still asks for 200m
C31_Witness ==
    /\ \E w \in ResizeWrites :
          /\ w.kind = "Deployment" /\ w.index = 1 /\ w.container = 2
          /\ w.old = 500 /\ w.new # 500
          /\ deployments[1].Containers[2] = <<w.new>>
    /\ Len(deployments[1].Containers) = 3
    /\ deployments[1].Containers[1] = Nil
    /\ deployments[1].Containers[3] = <<200>>

(***************************************************************************)
(* The recommendations of policy Recommend.                                *)
(***************************************************************************)
\* the text "CPU usage is <value>%. Consider <action>." of a cycle
Recommendation(value, action) == [usage |-> Format2(value), consider |-> action]

\* the observed value is inside [Min, Max]
InsideZone == ~ValueBelow(MinThreshold) /\ ~ValueAbove(MaxThreshold)

\* C32: under Recommend a reported cycle whose action is not DoNothing
\* stores exactly one recommendation, naming the observed value and the
\* candidate action, in place of whatever was stored; a cycle whose action
\* is DoNothing clears the stored recommendations, so none persists once
\* the value is back inside [Min, Max].  LastAction is not touched.
C32_OneRecommendationOrNone ==
    (RecommendCycle /\ res.kind = "reported") =>
        /\ res.action # DoNothing =>
              /\ Len(status.Recommendations) = 1
              /\ status.Recommendations = <<Recommendation(res.value, res.action)>>
              /\ res.action \in {ScaleUpAction, ScaleDownAction}
        /\ res.action = DoNothing => status.Recommendations = Nil
        /\ InsideZone => status.Recommendations = Nil
        /\ status.LastAction = res.prior

\* a ScaleUp recommendation took the place of a ScaleDown one, and a value
\* back inside the zone cleared a stored recommendation
C32_Witness ==
    /\ RecommendCycle
    /\ res.kind = "reported"
    /\ res.action = ScaleUpAction
    /\ Len(res.priorRecommendations) = 1
    /\ res.priorRecommendations[1].consider = ScaleDownAction
    /\ status.Recommendations = <<Recommendation(res.value, ScaleUpAction)>>

C32_WitnessCleared ==
    /\ RecommendCycle
    /\ res.kind = "reported"
    /\ InsideZone
    /\ Len(res.priorRecommendations) = 1
    /\ status.Recommendations = Nil

(***************************************************************************)
(* Workloads without a CPU request.                                        *)
(***************************************************************************)
WorkloadKinds == {"Deployment", "StatefulSet"}

\* the cycle classified a Resize action and dispatched it
ResizeCycle == res.kind # "none" /\ res.action \in {ResizeUpAction, ResizeDownAction}

\* C33: in a Resize cycle a matched workload in which no container declares a
\* CPU request is skipped without a patch and without an error: exactly the
\* workloads with a CPU request are patched, those after it included, and the
\* cycle reports success.
C33_NoCPURequestIsSkipped ==
    ResizeCycle =>
        /\ res.kind = "reported"
        /\ ~res.err
        /\ res.requeueAfter = RequeueInterval
        /\ \A kind \in WorkloadKinds :
              \A i \in 1..Len(WorkloadsOf(kind)) :
                  (\E w \in ResizeWrites : w.kind = kind /\ w.index = i)
                      <=> (\E c \in 1..Len(WorkloadsOf(kind)[i].Containers) :
                              ~IsNil(WorkloadsOf(kind)[i].Containers[c]))

\* the second Deployment declares no CPU request: the first Deployment and
\* the StatefulSet after it are patched, and the cycle is reported
C33_Witness ==
    /\ ResizeCycle
    /\ res.kind = "reported"
    /\ Len(deployments) = 2
    /\ deployments[2].Containers = <<Nil>>
    /\ \E w \in ResizeWrites : w.kind = "Deployment" /\ w.index = 1
    /\ \E w \in ResizeWrites : w.kind = "StatefulSet" /\ w.index = 1
    /\ Len(res.writes) = 2

(***************************************************************************)
(* The life of the LastAction record.                                      *)
(***************************************************************************)
\* the cycle that just ran passed the gate with a real action
Admitted(r) ==
    /\ r.kind \in {"reported", "error", "panic"}
    /\ r.dispatched
    /\ r.action \notin {"", DoNothing}

\* a stored record stays stored and its timestamp does not go back
RecordKept ==
    ~IsNil(status.LastAction) =>
        /\ ~IsNil(status'.LastAction)
        /\ Deref(status'.LastAction).Timestamp >= Deref(status.LastAction).Timestamp

\* C34: once a profile has a LastAction record no later cycle of any policy
\* removes it; it is overwritten by every admitted non-DoNothing action
\* under Scale or Resize, and its timestamp never decreases.
C34_LastActionPersists ==
    [][/\ RecordKept
       /\ (res' # res /\ Admitted(res')) =>
              status'.LastAction = <<ActionDetail(res'.action, res'.t2, res'.value)>>]_vars

\* the part that holds on every step: the record is never removed, its
\* timestamp never decreases, and every admitted action of a cycle that ends
\* without an error overwrites it
C34_PersistsAndOverwrittenOnSuccess ==
    [][/\ RecordKept
       /\ (res' # res /\ Admitted(res') /\ ~res'.err) =>
              status'.LastAction = <<ActionDetail(res'.action, res'.t2, res'.value)>>]_vars

\* an admitted ScaleUp patched a Deployment, a later call failed, and the
\* record is the older one
C34_AdmittedNotRecorded ==
    /\ Admitted(res)
    /\ res.err
    /\ Len(res.writes) > 0
    /\ ~IsNil(res.prior)
    /\ status.LastAction = res.prior

(***************************************************************************)
(* Two controller processes reconciling one profile.  A cycle is split at  *)
(* its calls to the API server: the Get of the profile, the query and the  *)
(* gate, the List and the Patches of each kind of workload, and the update *)
(* of the status, which the API server refuses when the profile was        *)
(* written since the Get.                                                  *)
(***************************************************************************)
OverlapProfileSpecs ==
    {spec \in ProfileSpecs : spec.OptimizationPolicy = "Scale"}

\* one Deployment and one StatefulSet, one replica each
OverlapCluster ==
    [deployments |-> <<Workload(<<1>>, <<<<500>>>>)>>,
     statefulSets |-> <<Workload(<<1>>, <<Nil>>)>>]

\* the mean of the samples a process's query returns: above Max, inside the
\* zone
OverlapVectors == {<<90>>, <<50>>}

InitOverlap ==
    /\ now = 0
    /\ profile \in OverlapProfileSpecs
    /\ status = FreshStatus(Nil)
    /\ deployments = OverlapCluster.deployments
    /\ statefulSets = OverlapCluster.statefulSets
    /\ res = NoResult
    /\ lastPatchAt = Nil
    /\ failures = 0
    /\ goarch = "amd64"
    /\ inflight = NoCycles

\* r.Get(ctx, req.NamespacedName, &resourceOptimizerProfile): the process
\* holds the status, and the resourceVersion, that the store has now
GetProfile(p) ==
    /\ inflight[p].pc = "idle"
    /\ inflight' = [inflight EXCEPT ![p] =
                       [Idle EXCEPT !.pc = "got", !.status = status,
                                    !.fresh = \A q \in Processes : ~inflight[q].wrote]]
    /\ UNCHANGED <<now, profile, status, deployments, statefulSets, res, lastPatchAt,
                   failures, goarch>>

\* the query, the mean, the classification and the gate
Evaluate(p, vector) ==
    /\ inflight[p].pc = "got"
    /\ LET c == inflight[p]
           value == AverageValue(vector)
           action == ClassifyAction(profile, value)
           blocked == InCooldown(action, c.status.LastAction, CooldownOf(profile), now)
       IN  inflight' = [inflight EXCEPT ![p] =
               [c EXCEPT !.value = value, !.action = action, !.t1 = now,
                         !.pc = IF blocked THEN "blocked"
                                ELSE IF action = DoNothing THEN "update"
                                ELSE "listDeployments",
                         !.newStatus = NewStatus(profile, c.status, action, value, now)]]
    /\ UNCHANGED <<now, profile, status, deployments, statefulSets, res, lastPatchAt,
                   failures, goarch>>

\* r.List: the items as the store has them now
ListItems(p, kind) ==
    /\ inflight[p].pc = (IF kind = "Deployment" THEN "listDeployments"
                         ELSE "listStatefulSets")
    /\ inflight' = [inflight EXCEPT ![p].items =
                                        IF kind = "Deployment" THEN deployments
                                        ELSE statefulSets,
                                    ![p].pc = IF kind = "Deployment"
                                              THEN "patchDeployments"
                                              ELSE "patchStatefulSets"]
    /\ UNCHANGED <<now, profile, status, deployments, statefulSets, res, lastPatchAt,
                   failures, goarch>>

\* client.MergeFrom(item.DeepCopy()) and r.Patch: the patch holds the fields
\* that differ from the listed copy, spec.replicas here, and is applied to
\* the object of the store whatever its resourceVersion
MergePatch(current, listed, patched) ==
    [i \in 1..Len(current) |->
        IF patched[i].Replicas # listed[i].Replicas
        THEN [current[i] EXCEPT !.Replicas = patched[i].Replicas]
        ELSE current[i]]

\* the loop over the listed items; after the StatefulSets the cycle sets
\* Status.LastAction with metav1.Now()
PatchItems(p, kind) ==
    /\ inflight[p].pc = (IF kind = "Deployment" THEN "patchDeployments"
                         ELSE "patchStatefulSets")
    /\ LET c == inflight[p]
           loop == ScaleLoop(kind, c.items, 1, c.action, 0, <<>>)
       IN  /\ IF kind = "Deployment"
              THEN /\ deployments' = MergePatch(deployments, c.items, loop.items)
                   /\ UNCHANGED statefulSets
              ELSE /\ statefulSets' = MergePatch(statefulSets, c.items, loop.items)
                   /\ UNCHANGED deployments
           /\ inflight' = [inflight EXCEPT ![p] =
                  [c EXCEPT !.writes = c.writes \o loop.writes,
                            !.patchedAt = <<now>>,
                            !.pc = IF kind = "Deployment" THEN "listStatefulSets"
                                   ELSE "update",
                            !.newStatus = NewStatus(profile, c.status, c.action, c.value,
                                                    now)]]
    /\ UNCHANGED <<now, profile, status, res, lastPatchAt, failures, goarch>>

\* r.Status().Update: a Conflict when the profile was written since the Get
\* of this cycle; otherwise the status is stored and the cycles that hold an
\* older copy are stale
UpdateStatus(p) ==
    /\ inflight[p].pc = "update"
    /\ IF inflight[p].stale
       THEN /\ inflight' = [inflight EXCEPT ![p].pc = "done", ![p].conflict = TRUE]
            /\ UNCHANGED status
       ELSE /\ status' = inflight[p].newStatus
            /\ inflight' = [q \in Processes |->
                               IF q = p
                               THEN [inflight[q] EXCEPT !.pc = "done", !.wrote = TRUE]
                               ELSE IF inflight[q].pc \notin {"idle", "done", "blocked"}
                               THEN [inflight[q] EXCEPT !.stale = TRUE]
                               ELSE inflight[q]]
    /\ UNCHANGED <<now, profile, deployments, statefulSets, res, lastPatchAt, failures,
                   goarch>>

NextOverlap ==
    \/ Tick
    \/ \E p \in Processes :
          \/ GetProfile(p)
          \/ \E vector \in OverlapVectors : Evaluate(p, vector)
          \/ \E kind \in {"Deployment", "StatefulSet"} : ListItems(p, kind)
          \/ \E kind \in {"Deployment", "StatefulSet"} : PatchItems(p, kind)
          \/ UpdateStatus(p)

SpecOverlap == InitOverlap /\ [][NextOverlap]_vars

\* both cycles read the profile before either wrote its status
Overlapping == \A p \in Processes : inflight[p].pc # "idle" /\ inflight[p].fresh

StatusWriters == {p \in Processes : inflight[p].wrote}
Patchers == {p \in Processes : inflight[p].writes # <<>>}

\* C35: when two cycles for one profile overlap, both reading the same prior
\* status before either writes, at most one of their status writes succeeds
\* and at most one of them patches the workloads: no two replica steps are
\* applied inside one cooldown window.
C35_OverlapAppliesOneStep ==
    Overlapping =>
        /\ Cardinality(StatusWriters) <= 1
        /\ Cardinality(Patchers) <= 1
        /\ \A p, q \in Patchers :
              p # q => Abs(Deref(inflight[p].patchedAt) - Deref(inflight[q].patchedAt))
                          >= CooldownOf(profile)
        /\ \A i \in 1..Len(deployments) :
              Deref(deployments[i].Replicas)
                  <= Deref(OverlapCluster.deployments[i].Replicas) + 1

\* the part the status store does enforce: of two overlapping cycles at most
\* one status write succeeds, and the other one ends with a Conflict
C35_AtMostOneStatusWrite ==
    Overlapping =>
        /\ Cardinality(StatusWriters) <= 1
        /\ \A p \in Processes :
              (inflight[p].pc = "done" /\ ~inflight[p].wrote) => inflight[p].conflict

\* both overlapping cycles patched the Deployment in the same minute: it
\* runs 3 replicas, one status write succeeded and the other was refused
C35_BothPatched ==
    /\ Overlapping
    /\ Cardinality(Patchers) = 2
    /\ Cardinality(StatusWriters) = 1
    /\ \E p \in Processes : inflight[p].conflict
    /\ Deref(deployments[1].Replicas) = 3
    /\ \A p \in Processes : inflight[p].patchedAt = <<now>>

(***************************************************************************)
(* The resize on a narrow zone: thresholds with Max < 1.5 * Min.           *)
(***************************************************************************)
NarrowThresholds == {[Min |-> 60, Max |-> 70], [Min |-> 50, Max |-> 60]}

NarrowProfileSpecs ==
    {[OptimizationPolicy |-> "Resize", CPUThresholds |-> th, CooldownPeriod |-> Nil,
      MinCPU |-> Nil, MaxCPU |-> Nil] : th \in NarrowThresholds}

InitNarrow ==
    /\ now = 0
    /\ profile \in NarrowProfileSpecs
    /\ status = FreshStatus(Nil)
    /\ \E cluster \in CycleClusters :
          /\ deployments = cluster.deployments
          /\ statefulSets = cluster.statefulSets
    /\ res = NoResult
    /\ lastPatchAt = Nil
    /\ failures = 0
    /\ goarch = "amd64"
    /\ inflight = NoCycles

NextNarrow ==
    \E vector \in SampleVectors :
        Reconcile([type |-> "vector", vector |-> vector], NoFailure, 0)

SpecNarrow == InitNarrow /\ [][NextNarrow]_vars

\* C36: with no clamp the resize follows the direction of the action: a
\* ResizeDown (value < Min) never writes a CPU request larger than the
\* current one and a ResizeUp (value > Max) never a smaller one, for all
\* thresholds with 1 <= Min < Max <= 100.
C36_ResizeFollowsDirection ==
    (Unclamped /\ 1 <= MinThreshold /\ MinThreshold < MaxThreshold /\ MaxThreshold <= 100) =>
        \A w \in ResizeWrites :
            /\ res.action = ResizeDownAction => w.new <= w.old
            /\ res.action = ResizeUpAction => w.new >= w.old

\* the half that holds for every such pair of thresholds
C36_ResizeUpNeverShrinks ==
    Unclamped => \A w \in ResizeWrites : res.action = ResizeUpAction => w.new >= w.old

\* thresholds {60, 70}, samples 30 and 75: the mean 52.5 is below Min, the
\* action is ResizeDown, and the request of 500m is raised to 504m
C36_ResizeDownGrows ==
    /\ res.action = ResizeDownAction
    /\ MinThreshold = 60 /\ MaxThreshold = 70
    /\ ValueBelow(MinThreshold)
    /\ res.value.num * 2 = 105 * res.value.den
    /\ \E w \in ResizeWrites : w.old = 500 /\ w.new = 504

(***************************************************************************)
(* Cycles that change no workload: nothing matches the selector, no        *)
(* matched container declares a CPU request, every workload runs one       *)
(* replica.                                                                *)
(***************************************************************************)
UnchangedClusters ==
    {[deployments |-> <<>>, statefulSets |-> <<>>],
     [deployments |-> <<Workload(<<1>>, <<Nil>>)>>,
      statefulSets |-> <<Workload(<<1>>, <<Nil, Nil>>)>>]}

UnchangedProfileSpecs ==
    {spec \in ProfileSpecs : spec.OptimizationPolicy \in {"Scale", "Resize"}}

InitUnchanged ==
    /\ now = 0
    /\ profile \in UnchangedProfileSpecs
    /\ \E lastAction \in {Nil} \cup {<<ActionDetail(a, 0, Frac(50, 1))>> : a \in PriorTypes} :
          status = FreshStatus(lastAction)
    /\ \E cluster \in UnchangedClusters :
          /\ deployments = cluster.deployments
          /\ statefulSets = cluster.statefulSets
    /\ res = NoResult
    /\ lastPatchAt = Nil
    /\ failures = 0
    /\ goarch = "amd64"
    /\ inflight = NoCycles

SpecUnchanged == InitUnchanged /\ [][Next]_vars

\* no Patch of the cycle changed the object it patched
NothingChanged == \A k \in 1..Len(res.writes) : res.writes[k].new = res.writes[k].old

\* C37: under Scale or Resize an admitted non-DoNothing cycle whose dispatch
\* returns no error writes LastAction, with the time of the cycle, whether or
\* not a workload was changed: also when nothing matched the selector, when
\* no matched container declares a CPU request, and when a ScaleDown left
\* every workload at the floor of one replica.  (A status update that fails
\* stores nothing.)
C37_RecordedWithoutChange ==
    (Admitted(res) /\ res.failed \in {"none", "statusUpdate"}) =>
        /\ res.failed = "none" =>
              /\ res.kind = "reported"
              /\ status.LastAction = <<ActionDetail(res.action, res.t2, res.value)>>
              /\ Deref(status.LastAction).Timestamp = now
        /\ res.failed = "statusUpdate" => status.LastAction = res.prior

\* a Resize on workloads of which no container declares a CPU request: no
\* Patch, and the record is the new one
C37_Witness ==
    /\ Admitted(res)
    /\ res.kind = "reported"
    /\ res.action \in {ResizeUpAction, ResizeDownAction}
    /\ Len(deployments) + Len(statefulSets) = 2
    /\ res.writes = <<>>
    /\ status.LastAction = <<ActionDetail(res.action, res.t2, res.value)>>
    /\ status.LastAction # res.prior

\* nothing matched the selector
C37_WitnessNoMatch ==
    /\ Admitted(res)
    /\ res.kind = "reported"
    /\ deployments = <<>> /\ statefulSets = <<>>
    /\ status.LastAction = <<ActionDetail(res.action, res.t2, res.value)>>
    /\ status.LastAction # res.prior

\* a ScaleDown that left both workloads at one replica
C37_WitnessAtFloor ==
    /\ Admitted(res)
    /\ res.kind = "reported"
    /\ res.action = ScaleDownAction
    /\ Len(res.writes) = 2
    /\ \A k \in 1..Len(res.writes) : res.writes[k].old = 1 /\ res.writes[k].new = 1
    /\ status.LastAction = <<ActionDetail(res.action, res.t2, res.value)>>
    /\ status.LastAction # res.prior

(***************************************************************************)
(* The work queue over time, for one process.  A call that returns         *)
(* RequeueAfter > 0 and no error puts the profile back on the queue, to be *)
(* reconciled when the delay has passed (an event on the profile can bring *)
(* the call forward); a call that returns RequeueAfter <= 0 and no error   *)
(* puts nothing on the queue.  The first call answers the creation of the  *)
(* profile.  The observed value stays on the side of the zone it was first *)
(* found on, and no collaborator call fails.                               *)
(***************************************************************************)
LiveProfileSpecs ==
    {spec \in ProfileSpecs : spec.OptimizationPolicy = "Scale"}

\* samples above Max and samples below Min
LiveVectors == {<<90>>, <<10>>}

\* the process whose work queue is followed
Worker == 1

InitLive ==
    /\ now = 0
    /\ profile \in LiveProfileSpecs
    /\ \E lastAction \in {Nil, <<ActionDetail(ScaleUpAction, 0, Frac(90, 1))>>} :
          status = FreshStatus(lastAction)
    /\ deployments = <<Workload(<<1>>, <<<<500>>>>)>>
    /\ statefulSets = <<Workload(<<1>>, <<Nil>>)>>
    /\ res = NoResult
    /\ lastPatchAt = Nil
    /\ failures = 0
    /\ goarch = "amd64"
    /\ inflight = NoCycles

\* the call has returned and asked for a requeue
Requeued == inflight[Worker].pc = "returned" /\ inflight[Worker].requeueAfter > 0

\* the queue holds the profile: it was just created, or the latest call
\* asked for a requeue
OnQueue == inflight[Worker].pc = "idle" \/ Requeued

\* the time by which the queue hands the profile to Reconcile
Deadline ==
    IF Requeued THEN inflight[Worker].returnedAt + inflight[Worker].requeueAfter ELSE 0

\* the clock advances, during a call as well, but not past the time a queued
\* call is due
LiveTick ==
    /\ now < MaxTime
    /\ OnQueue => now < Deadline
    /\ now' = now + 1
    /\ UNCHANGED <<profile, status, deployments, statefulSets, res, lastPatchAt, failures,
                   goarch, inflight>>

\* the queue hands the profile to Reconcile, which starts with its Get; the
\* record keeps the action of the call before
LiveGet ==
    /\ OnQueue
    /\ inflight' = [inflight EXCEPT ![Worker] =
                       [Idle EXCEPT !.pc = "got", !.status = status, !.fresh = TRUE,
                                    !.action = inflight[Worker].action]]
    /\ UNCHANGED <<now, profile, status, deployments, statefulSets, res, lastPatchAt,
                   failures, goarch>>

\* the query returns samples on the same side of the zone as before
LiveEvaluate ==
    \E vector \in LiveVectors :
        /\ inflight[Worker].action \in
               {"", ClassifyAction(profile, AverageValue(vector))}
        /\ Evaluate(Worker, vector)

\* the call returns: a blocked one with the wait it computes from a second
\* reading of the clock, one that updated the status with the regular
\* interval
ReturnResult ==
    /\ inflight[Worker].pc \in {"blocked", "done"}
    /\ LET c == inflight[Worker]
       IN  inflight' = [inflight EXCEPT ![Worker] =
               [c EXCEPT !.pc = "returned",
                         !.returnedAt = now,
                         !.requeueAfter =
                             IF c.pc = "blocked"
                             THEN RequeueAfterCooldown(c.status.LastAction,
                                                       CooldownOf(profile), now)
                             ELSE RequeueInterval]]
    /\ UNCHANGED <<now, profile, status, deployments, statefulSets, res, lastPatchAt,
                   failures, goarch>>

\* the steps of the process
CycleStep ==
    \/ LiveGet
    \/ LiveEvaluate
    \/ \E kind \in {"Deployment", "StatefulSet"} : ListItems(Worker, kind)
    \/ \E kind \in {"Deployment", "StatefulSet"} : PatchItems(Worker, kind)
    \/ UpdateStatus(Worker)
    \/ ReturnResult

NextLive == LiveTick \/ CycleStep

SpecLive ==
    InitLive /\ [][NextLive]_vars /\ WF_vars(LiveTick) /\ WF_vars(CycleStep)

\* the cycle in flight was blocked by the gate, and the cooldown of the
\* record it met ends within the time observed
BlockedCycle ==
    /\ inflight[Worker].pc = "blocked"
    /\ Deref(inflight[Worker].status.LastAction).Timestamp + CooldownOf(profile) <= MaxTime

\* a cycle passed the gate, patched the matched workloads and stored its
\* action
ActuatedCycle ==
    /\ inflight[Worker].pc = "done"
    /\ inflight[Worker].wrote
    /\ Len(inflight[Worker].writes) = Len(deployments) + Len(statefulSets)
    /\ ~IsNil(status.LastAction)
    /\ Deref(status.LastAction).Type = inflight[Worker].action
    /\ Deref(status.LastAction).Timestamp >= inflight[Worker].t1

\* C38: while the observed value stays above Max (or below Min), the queue
\* re-runs the cycle no later than each returned requeueAfter and no
\* collaborator call fails, every blocked cycle is eventually followed by a
\* cycle in which the action is admitted and actuated.
C38_BlockedLeadsToActuated == BlockedCycle ~> ActuatedCycle

\* the clock does not pass the end of the cooldown between the gate's check
\* and the return of the blocked call
ReturnsInTime ==
    inflight[Worker].pc = "blocked" =>
        now < Deref(inflight[Worker].status.LastAction).Timestamp + CooldownOf(profile)

\* the same for the calls that return a wait above zero
C38_LiveWhenReturnedInTime == []ReturnsInTime => (BlockedCycle ~> ActuatedCycle)

\* a blocked call returned a wait of zero or less: nothing is on the queue,
\* and the cooldown has run out
C38_BlockedAndDropped ==
    /\ inflight[Worker].pc = "returned"
    /\ inflight[Worker].requeueAfter <= 0
    /\ ~inflight[Worker].wrote
    /\ ~OnQueue
    /\ now >= Deref(status.LastAction).Timestamp + CooldownOf(profile)
    /\ now < MaxTime

====
